---- MODULE Spec2Model ----
(***************************************************************************)
(* TaggedAlloc (src/tagged_alloc.h): a table of allocation descriptors     *)
(* guarded by one recursive mutex.  Every context (task) runs the public   *)
(* operations; each operation is a sequence of steps, one per lock         *)
(* operation, scan or store of the source, with a return stack for the     *)
(* private functions that are called from more than one place.             *)
(*                                                                         *)
(* The descriptor's Time field is left out: no operation reads it except   *)
(* PrintStats, which prints it.  Allocation of the table's own buffers is  *)
(* taken to succeed, except where realloc's result is checked.             *)
(*                                                                         *)
(* The mutex is created with xSemaphoreCreateRecursiveMutex and is         *)
(* modelled as recursive: the holder may take it again, and it is free     *)
(* once every take has been given back.  The source takes it with          *)
(* xSemaphoreTake, which FreeRTOS does not define for a recursive mutex:   *)
(* a take by the holder may also wait and time out.  A take that cannot    *)
(* succeed is the time-out of TAGGED_ALLOC_WAIT_TIME, which fails the      *)
(* assert around it.  Asserts are active (NDEBUG is not defined): a failed *)
(* assert stops the program, recorded in the variable fatal.               *)
(***************************************************************************)
EXTENDS Integers, Sequences, FiniteSets, TLC

(***************************************************************************)
(* Configuration macros and program constants.                             *)
(***************************************************************************)
TAGGED_ALLOC_MIN_TABLE_SIZE == 32
TAGGED_ALLOC_INITIAL_TABLE_SIZE == 64
TAGGED_ALLOC_TABLE_SHRINK_STEP == 64
TAGGED_ALLOC_TABLE_EXPAND_STEP == 32
\* sizeof(TaggedAllocationDescriptor): void*, size_t, char[4], uint32_t on a 32-bit target
SizeofDescriptor == 16

(***************************************************************************)
(* Bounds of the model.                                                    *)
(***************************************************************************)
\* width of size_t in the model; the arithmetic below is modulo 2^SizeBits
SizeBits == 12
\* number of objects the underlying heap can hold; malloc fails when all are in use
HeapSize == 2
\* how far below zero callers may drive AllocationCount by freeing the null pointer
MaxUnderflow == 1
\* leading slots of the fresh table that may hold non-zero memory while the rest is zero
GarbageSlots == 1
\* number of leading slots that are zero or non-zero independently, where the private
\* functions are called on their own
PatternSlots == 5

Contexts == {1, 2}
NoContext == 0

SIZE_MOD == 2 ^ SizeBits
Add(a, b) == (a + b) % SIZE_MOD
Sub(a, b) == (a - b + SIZE_MOD) % SIZE_MOD
Mul(a, b) == (a * b) % SIZE_MOD

NULL == 0
HeapAddrs == 1 .. HeapSize
\* a word of all one bits: non-zero memory that is no heap address
PoisonWord == SIZE_MOD - 1
NoTag == "...."

\* the arguments of Allocate<T>(tag) / AllocateArray<T>(count, tag): sizeof(T) * count and tag
AllocInputs == { [size |-> 4, tag |-> "AAAA"], [size |-> 16, tag |-> "TAGA"] }

(***************************************************************************)
(* struct TaggedAllocationDescriptor, the empty descriptor { 0 } and       *)
(* TAGGED_ALLOC_IS_VALID.                                                   *)
(***************************************************************************)
Descriptor(obj, size, tag) == [Object |-> obj, Size |-> size, Tag |-> tag]
Empty == Descriptor(NULL, 0, NoTag)
TAGGED_ALLOC_IS_VALID(t) == t.Object # NULL

\* what a slot holds in memory that malloc or realloc hands out without clearing it and
\* that is not zero
Poison == Descriptor(PoisonWord, PoisonWord, "poison")

\* the table is a 0-based array; Slot(t, n) is t[n]
Slot(t, n) == t[n + 1]
Store(t, n, d) == [t EXCEPT ![n + 1] = d]
Entries(t) == Len(t)
ValidIndices(t) == { n \in 0 .. Entries(t) - 1 : TAGGED_ALLOC_IS_VALID(Slot(t, n)) }

VARIABLES
    AllocationTable,      \* the buffer AllocationTable points to, as a sequence of descriptors
    AllocationTableSize,  \* the static AllocationTableSize
    AllocationCount,      \* the static AllocationCount
    mutexHolder,          \* the context holding AllocationTableMutex, or NoContext
    mutexCount,           \* how many times the holder has taken it
    heap,                 \* objects malloc has handed out and free has not taken back
    held,                 \* the descriptors of the objects that Allocate has returned and
                          \* that no Free call has been given yet
    strayFree,            \* a Free call has been given an address that has no record
    pc,                   \* each context's position
    stack,                \* each context's return positions
    loc,                  \* each context's locals
    fatal                 \* "" or the assertion that ended the program

vars == << AllocationTable, AllocationTableSize, AllocationCount, mutexHolder, mutexCount,
           heap, held, strayFree, pc, stack, loc, fatal >>

shared == << AllocationTable, AllocationTableSize, AllocationCount >>

NoLocals ==
    [ op |-> "", ta |-> Empty, objectPointer |-> NULL, insertIndex |-> 0, found |-> FALSE,
      newEntryCount |-> 0, start |-> 0, firstEmptyIndex |-> 0, firstValidIndex |-> 0,
      fragmented |-> FALSE, count |-> 0, totalSize |-> 0, tableSize |-> 0, allocCount |-> 0,
      copy |-> << >> ]

(***************************************************************************)
(* Static initialisation followed by TaggedAlloc::Init(): the table is     *)
(* malloc'ed and not cleared, so its slots hold whatever the memory held.  *)
(***************************************************************************)
\* The memory is all zero, or non-zero in its leading slots, or non-zero throughout.
UninitTable(n) ==
    [ i \in 1 .. TAGGED_ALLOC_INITIAL_TABLE_SIZE |-> IF i <= n THEN Poison ELSE Empty ]

UninitTables ==
    { UninitTable(n) : n \in (0 .. GarbageSlots) \cup { TAGGED_ALLOC_INITIAL_TABLE_SIZE } }

Init ==
    /\ AllocationTable \in UninitTables
    /\ AllocationTableSize = TAGGED_ALLOC_INITIAL_TABLE_SIZE
    /\ AllocationCount = 0
    /\ mutexHolder = NoContext
    /\ mutexCount = 0
    /\ heap = {}
    /\ held = {}
    /\ strayFree = FALSE
    /\ pc = [c \in Contexts |-> "idle"]
    /\ stack = [c \in Contexts |-> << >>]
    /\ loc = [c \in Contexts |-> NoLocals]
    /\ fatal = ""

Running == fatal = ""

(***************************************************************************)
(* Control: calls, returns and the recursive mutex.                        *)
(***************************************************************************)
Goto(c, label) == pc' = [pc EXCEPT ![c] = label]
Call(c, entry, return) ==
    /\ pc' = [pc EXCEPT ![c] = entry]
    /\ stack' = [stack EXCEPT ![c] = << return >> \o @]
Return(c) ==
    /\ pc' = [pc EXCEPT ![c] = Head(stack[c])]
    /\ stack' = [stack EXCEPT ![c] = Tail(@)]
AssertFail(what) == fatal' = what

\* the position after the xSemaphoreTake of InsertAllocation and of the private functions
\* (a function that starts with its take is entered and takes in one step, see Enter)
AfterTake ==
    [ IA_take |-> "IA_lookup", GFES_take |-> "GFES_scan", IATF_take |-> "IATF_scan",
      DAT_take |-> "DAT_begin", RAT_take |-> "RAT_body" ]
\* the position after the xSemaphoreGive of a function called from outside the lock;
\* a private function returns to its caller instead
AfterGive == [ RA_give |-> "Free_release", GAC_give |-> "idle", GTS_give |-> "idle" ]
ReturningGives == { "GFES_give", "IATF_give", "DAT_give", "RAT_give" }


\* a take that never waits for the holder (the mutex fails to exclude)
CanTake_NoWait(c) == TRUE

\* xSemaphoreTake succeeds when the mutex is free or the caller already holds it
CanTake(c) == mutexHolder \in { NoContext, c }

Acquire(c) ==
    /\ mutexHolder' = c
    /\ mutexCount' = IF mutexHolder = c THEN mutexCount + 1 ELSE 1

xSemaphoreTake(c) ==
    /\ Running
    /\ pc[c] \in DOMAIN AfterTake
    /\ CanTake(c)
    /\ Acquire(c)
    /\ Goto(c, AfterTake[pc[c]])
    /\ UNCHANGED << shared, heap, held, strayFree, stack, loc, fatal >>

\* a take by the context that holds the mutex already
NestedTake(c) == mutexHolder = c

\* assert(xSemaphoreTake(AllocationTableMutex, TAGGED_ALLOC_WAIT_TIME)) failing: another
\* context keeps the mutex for longer than the wait time, or the caller holds it itself.
\* The source takes the recursive mutex with xSemaphoreTake, not with
\* xSemaphoreTakeRecursive; FreeRTOS leaves the outcome of that call on a recursive mutex
\* open, so a nested take is either counted (xSemaphoreTake above) or waits for a give
\* that cannot come and times out.
xSemaphoreTakeTimeout(c) ==
    /\ Running
    /\ pc[c] \in DOMAIN AfterTake
    /\ ~CanTake(c) \/ NestedTake(c)
    /\ AssertFail(IF NestedTake(c) THEN "nested xSemaphoreTake timed out"
                                    ELSE "xSemaphoreTake timed out")
    /\ UNCHANGED << shared, mutexHolder, mutexCount, heap, held, strayFree, pc, stack, loc >>

\* A call, from outside the lock, of a function whose first statement is
\* assert(xSemaphoreTake(...)): the caller gets the mutex and stands at `body` with the
\* locals `locals`, or the take times out; while neither happens the caller waits
Enter(c, body, locals) ==
    /\ Running
    /\ pc[c] = "idle"
    /\ IF CanTake(c)
         THEN /\ Acquire(c)
              /\ loc' = [loc EXCEPT ![c] = locals]
              /\ Goto(c, body)
              /\ UNCHANGED fatal
         ELSE /\ AssertFail("xSemaphoreTake timed out")
              /\ UNCHANGED << mutexHolder, mutexCount, pc, loc >>
    /\ UNCHANGED << shared, heap, stack >>

\* xSemaphoreGive: one hold less; a give by a context that does not hold the mutex fails
Release(c) ==
    IF mutexHolder = c
      THEN /\ mutexCount' = mutexCount - 1
           /\ mutexHolder' = IF mutexCount = 1 THEN NoContext ELSE c
      ELSE UNCHANGED << mutexHolder, mutexCount >>

xSemaphoreGive(c) ==
    /\ Running
    /\ pc[c] \in DOMAIN AfterGive \cup ReturningGives
    /\ Release(c)
    /\ IF pc[c] \in ReturningGives
         THEN Return(c) /\ UNCHANGED loc
         ELSE /\ Goto(c, AfterGive[pc[c]])
              /\ loc' = IF AfterGive[pc[c]] = "idle" THEN [loc EXCEPT ![c] = NoLocals] ELSE loc
              /\ UNCHANGED stack
    /\ UNCHANGED << shared, heap, held, strayFree, fatal >>

(***************************************************************************)
(* The loops of the source, as functions of the table they scan.           *)
(***************************************************************************)
\* a scan bounded by AllocationTableSize that runs past the end of the buffer
Overruns(t, size) == size > Entries(t)

\* the lowest member of a non-empty set of indices: where a loop that counts up stops first
Lowest(S) == CHOOSE n \in S : \A m \in S : n <= m

\* GetFirstEmptySlot's loop: the first n < size whose slot is not valid, or -1
FirstEmptySlot(t, size) ==
    LET empty == { n \in 0 .. size - 1 : ~TAGGED_ALLOC_IS_VALID(Slot(t, n)) } IN
    IF empty = {} THEN -1 ELSE Lowest(empty)

\* GetTotalSize's loop over lo <= index < hi, summed by halves
RECURSIVE TotalSizeOver(_, _, _)
TotalSizeOver(t, lo, hi) ==
    IF lo >= hi THEN 0
    ELSE IF hi = lo + 1
      THEN IF TAGGED_ALLOC_IS_VALID(Slot(t, lo)) THEN Slot(t, lo).Size ELSE 0
    ELSE LET mid == (lo + hi) \div 2 IN
         Add(TotalSizeOver(t, lo, mid), TotalSizeOver(t, mid, hi))

\* RemoveAllocation's loop: the first n < size whose slot is valid and holds the pointer, or -1
FirstMatch(t, size, objectPointer) ==
    LET match == { n \in 0 .. size - 1 :
                     TAGGED_ALLOC_IS_VALID(Slot(t, n)) /\ Slot(t, n).Object = objectPointer } IN
    IF match = {} THEN -1 ELSE Lowest(match)

\* where IsAllocationTableFragmented's entry pointer starts: at the first slot of the table
FirstEntry(start) == 0

\* IsAllocationTableFragmented's loop. index runs from start and entry from
\* FirstEntry(start), so the slot looked at for index is FirstEntry(start) + index - start.
\* The loop records the first index it finds not valid, and stops at the first index
\* after that one which it finds valid.
Fragmented(t, size, start, firstEmptyIndex, firstValidIndex) ==
    LET validEntry(index) == TAGGED_ALLOC_IS_VALID(Slot(t, FirstEntry(start) + index - start))
        invalid == { index \in start .. size - 1 : ~validEntry(index) }
    IN  IF invalid = {}
          THEN [ fragmented |-> FALSE, firstEmptyIndex |-> firstEmptyIndex,
                 firstValidIndex |-> firstValidIndex ]
        ELSE LET valid == { index \in Lowest(invalid) + 1 .. size - 1 : validEntry(index) } IN
             IF valid = {}
               THEN [ fragmented |-> FALSE, firstEmptyIndex |-> Lowest(invalid),
                      firstValidIndex |-> firstValidIndex ]
             ELSE [ fragmented |-> TRUE, firstEmptyIndex |-> Lowest(invalid),
                    firstValidIndex |-> Lowest(valid) ]

(***************************************************************************)
(* Allocate / AllocateArray -> AllocateInternal -> InsertAllocation.       *)
(***************************************************************************)
\* malloc on a heap with room: first fit, the lowest address not in use
malloc == Lowest(HeapAddrs \ heap)

\* AllocateInternal up to its call of InsertAllocation: build the descriptor, malloc the
\* object (outside the lock), assert(ta.Object)
AllocateInternal(c, in) ==
    /\ Running
    /\ pc[c] = "idle"
    /\ IF HeapAddrs \subseteq heap
         THEN /\ AssertFail("assert(ta.Object)")
              /\ UNCHANGED << heap, pc, loc >>
         ELSE LET p == malloc IN
                /\ heap' = heap \cup { p }
                /\ loc' = [loc EXCEPT ![c] = [NoLocals EXCEPT !.op = "Allocate",
                                                !.ta = Descriptor(p, in.size, in.tag)]]
                /\ Goto(c, "IA_take")
                /\ UNCHANGED fatal
    /\ UNCHANGED << shared, mutexHolder, mutexCount, held, strayFree, stack >>

\* InsertAllocation: if (!GetFirstEmptySlot(&insertIndex)), the call
InsertAllocation_lookup(c) ==
    /\ Running
    /\ pc[c] = "IA_lookup"
    /\ Call(c, "GFES_take", "IA_grow")
    /\ UNCHANGED << shared, mutexHolder, mutexCount, heap, held, strayFree, loc, fatal >>

\* InsertAllocation: the table is full, ResizeAllocationTable(AllocationTableSize + EXPAND_STEP)
InsertAllocation_grow(c) ==
    /\ Running
    /\ pc[c] = "IA_grow"
    /\ IF ~loc[c].found
         THEN /\ loc' = [loc EXCEPT ![c].newEntryCount =
                             Add(AllocationTableSize, TAGGED_ALLOC_TABLE_EXPAND_STEP)]
              /\ Call(c, "RAT_assert", "IA_lookup2")
         ELSE /\ Goto(c, "IA_lookup2")
              /\ UNCHANGED << stack, loc >>
    /\ UNCHANGED << shared, mutexHolder, mutexCount, heap, held, strayFree, fatal >>

\* InsertAllocation: the second if (!GetFirstEmptySlot(&insertIndex)), the call
InsertAllocation_lookup2(c) ==
    /\ Running
    /\ pc[c] = "IA_lookup2"
    /\ Call(c, "GFES_take", "IA_store")
    /\ UNCHANGED << shared, mutexHolder, mutexCount, heap, held, strayFree, loc, fatal >>

\* InsertAllocation: assert(false) without a slot, else store the descriptor and count it
InsertAllocation_store(c) ==
    /\ Running
    /\ pc[c] = "IA_store"
    /\ IF ~loc[c].found
         THEN /\ AssertFail("assert(false): no empty slot after the resize")
              /\ UNCHANGED << shared, pc >>
         ELSE /\ AllocationTable' = Store(AllocationTable, loc[c].insertIndex, loc[c].ta)
              /\ AllocationCount' = Add(AllocationCount, 1)
              /\ Goto(c, "IA_give")
              /\ UNCHANGED << AllocationTableSize, fatal >>
    /\ UNCHANGED << mutexHolder, mutexCount, heap, held, strayFree, stack, loc >>

\* InsertAllocation's xSemaphoreGive and AllocateInternal's return (T*)ta.Object
AllocateInternal_return(c) ==
    /\ Running
    /\ pc[c] = "IA_give"
    /\ Release(c)
    /\ held' = held \cup { loc[c].ta }
    /\ loc' = [loc EXCEPT ![c] = NoLocals]
    /\ Goto(c, "idle")
    /\ UNCHANGED << shared, heap, strayFree, stack, fatal >>

\* GetFirstEmptySlot between its take and its give
GetFirstEmptySlot(c) ==
    /\ Running
    /\ pc[c] = "GFES_scan"
    /\ IF Overruns(AllocationTable, AllocationTableSize)
         THEN /\ AssertFail("GetFirstEmptySlot reads past the end of the table")
              /\ UNCHANGED << pc, loc >>
         ELSE LET n == FirstEmptySlot(AllocationTable, AllocationTableSize) IN
              /\ loc' = [loc EXCEPT ![c].found = (n # -1),
                                    ![c].insertIndex = IF n # -1 THEN n ELSE @]
              /\ Goto(c, "GFES_give")
              /\ UNCHANGED fatal
    /\ UNCHANGED << shared, mutexHolder, mutexCount, heap, held, strayFree, stack >>

(***************************************************************************)
(* Free -> RemoveAllocation, then free(object).                            *)
(***************************************************************************)
HeldObjects == { d.Object : d \in held }

\* how far AllocationCount has wrapped below zero
Underflow(count) == IF count >= SIZE_MOD \div 2 THEN SIZE_MOD - count ELSE 0

\* Free(object) up to RemoveAllocation's take: the caller passes an object Allocate
\* returned, or the null pointer
Free(c, object) ==
    /\ object \in HeldObjects \cup { NULL }
    /\ object = NULL => Underflow(AllocationCount) < MaxUnderflow
    /\ held' = { d \in held : d.Object # object }
    /\ strayFree' = (strayFree \/ object = NULL)
    /\ Enter(c, "RA_scan", [NoLocals EXCEPT !.op = "Free", !.objectPointer = object])

\* RemoveAllocation's test for shrinking, on the count after the decrement
ShouldShrink(count, size) ==
    /\ count > TAGGED_ALLOC_MIN_TABLE_SIZE
    /\ Add(count, TAGGED_ALLOC_TABLE_SHRINK_STEP) < size

\* what RemoveAllocation's decrement leaves in AllocationCount
Decrement(count) == Sub(count, 1)

\* RemoveAllocation between its take and its give: clear the first matching slot,
\* AllocationCount--, and call ResizeAllocationTable when the test says so
RemoveAllocation(c) ==
    /\ Running
    /\ pc[c] = "RA_scan"
    /\ IF Overruns(AllocationTable, AllocationTableSize)
         THEN /\ AssertFail("RemoveAllocation reads past the end of the table")
              /\ UNCHANGED << shared, pc, stack, loc >>
         ELSE LET n == FirstMatch(AllocationTable, AllocationTableSize,
                                  loc[c].objectPointer)
                  count == Decrement(AllocationCount)
              IN  /\ AllocationTable' = IF n # -1 THEN Store(AllocationTable, n, Empty)
                                                  ELSE AllocationTable
                  /\ AllocationCount' = count
                  /\ IF ShouldShrink(count, AllocationTableSize)
                       THEN /\ loc' = [loc EXCEPT ![c].newEntryCount =
                                          Sub(AllocationTableSize, TAGGED_ALLOC_TABLE_SHRINK_STEP)]
                            /\ Call(c, "RAT_assert", "RA_give")
                       ELSE /\ Goto(c, "RA_give")
                            /\ UNCHANGED << stack, loc >>
                  /\ UNCHANGED << AllocationTableSize, fatal >>
    /\ UNCHANGED << mutexHolder, mutexCount, heap, held, strayFree >>

\* Free: free(object) after RemoveAllocation has returned
Free_release(c) ==
    /\ Running
    /\ pc[c] = "Free_release"
    /\ heap' = heap \ { loc[c].objectPointer }
    /\ loc' = [loc EXCEPT ![c] = NoLocals]
    /\ Goto(c, "idle")
    /\ UNCHANGED << shared, mutexHolder, mutexCount, held, strayFree, stack, fatal >>


(***************************************************************************)
(* ResizeAllocationTable, DefragAllocationTable, IsAllocationTableFragmented*)
(***************************************************************************)
\* the condition of ResizeAllocationTable's first assert
ResizeAssertion(newEntryCount) == newEntryCount < TAGGED_ALLOC_MIN_TABLE_SIZE

\* ResizeAllocationTable: assert(newEntryCount < TAGGED_ALLOC_MIN_TABLE_SIZE)
ResizeAllocationTable_assert(c) ==
    /\ Running
    /\ pc[c] = "RAT_assert"
    /\ IF ResizeAssertion(loc[c].newEntryCount)
         THEN Goto(c, "RAT_take") /\ UNCHANGED fatal
         ELSE AssertFail("assert(newEntryCount < TAGGED_ALLOC_MIN_TABLE_SIZE)") /\ UNCHANGED pc
    /\ UNCHANGED << shared, mutexHolder, mutexCount, heap, held, strayFree, stack, loc >>

\* ResizeAllocationTable after its take: nothing to do for the current size, defragment
\* before shrinking
ResizeAllocationTable_body(c) ==
    /\ Running
    /\ pc[c] = "RAT_body"
    /\ IF loc[c].newEntryCount # AllocationTableSize
         THEN IF loc[c].newEntryCount < AllocationTableSize
                THEN Call(c, "DAT_take", "RAT_realloc")
                ELSE Goto(c, "RAT_realloc") /\ UNCHANGED stack
         ELSE Goto(c, "RAT_give") /\ UNCHANGED stack
    /\ UNCHANGED << shared, mutexHolder, mutexCount, heap, held, strayFree, loc, fatal >>

\* what realloc(AllocationTable, newSize) may return: the null pointer (always possible, and
\* one of the two answers to a size of 0), or a buffer of newSize bytes that keeps the old
\* contents up to the smaller of the two sizes and holds anything beyond
ReallocResults(t, newSize) ==
    LET entries == newSize \div SizeofDescriptor IN
    { [ ok |-> FALSE, buffer |-> << >> ] } \cup
    { [ ok |-> TRUE,
        buffer |-> [ i \in 1 .. entries |-> IF i <= Entries(t) THEN t[i] ELSE g ] ] :
      g \in { Empty, Poison } }

\* what ResizeAllocationTable stores in AllocationTableSize
StoredTableSize(newEntryCount, newSize) == newSize

\* ResizeAllocationTable: realloc, assert(AllocationTable != nullptr), AllocationTableSize = newSize
ResizeAllocationTable_realloc(c) ==
    /\ Running
    /\ pc[c] = "RAT_realloc"
    /\ LET newSize == Mul(loc[c].newEntryCount, SizeofDescriptor) IN
       \E r \in ReallocResults(AllocationTable, newSize) :
          /\ AllocationTable' = r.buffer
          /\ IF r.ok
               THEN /\ AllocationTableSize' = StoredTableSize(loc[c].newEntryCount, newSize)
                    /\ Goto(c, "RAT_give")
                    /\ UNCHANGED fatal
               ELSE /\ AssertFail("assert(AllocationTable != nullptr)")
                    /\ UNCHANGED << AllocationTableSize, pc >>
    /\ UNCHANGED << AllocationCount, mutexHolder, mutexCount, heap, held, strayFree, stack, loc >>

\* DefragAllocationTable after its take: the two locals, and the first test of the while
DefragAllocationTable_begin(c) ==
    /\ Running
    /\ pc[c] = "DAT_begin"
    /\ loc' = [loc EXCEPT ![c].firstEmptyIndex = 0, ![c].firstValidIndex = 0, ![c].start = 0]
    /\ Call(c, "IATF_take", "DAT_test")
    /\ UNCHANGED << shared, mutexHolder, mutexCount, heap, held, strayFree, fatal >>

\* the body of DefragAllocationTable's while
MoveDown(t, firstEmptyIndex, firstValidIndex) ==
    Store(Store(t, firstEmptyIndex, Slot(t, firstValidIndex)), firstValidIndex, Empty)

\* DefragAllocationTable: while fragmented, move the valid descriptor into the empty slot
\* and test again from firstEmptyIndex
DefragAllocationTable_step(c) ==
    /\ Running
    /\ pc[c] = "DAT_test"
    /\ IF loc[c].fragmented
         THEN IF loc[c].firstEmptyIndex >= Entries(AllocationTable)
                   \/ loc[c].firstValidIndex >= Entries(AllocationTable)
                THEN /\ AssertFail("DefragAllocationTable writes past the end of the table")
                     /\ UNCHANGED << shared, pc, stack, loc >>
                ELSE /\ AllocationTable' = MoveDown(AllocationTable, loc[c].firstEmptyIndex,
                                                    loc[c].firstValidIndex)
                     /\ loc' = [loc EXCEPT ![c].start = loc[c].firstEmptyIndex]
                     /\ Call(c, "IATF_take", "DAT_test")
                     /\ UNCHANGED << AllocationTableSize, AllocationCount, fatal >>
         ELSE /\ Goto(c, "DAT_give")
              /\ UNCHANGED << shared, stack, loc, fatal >>
    /\ UNCHANGED << mutexHolder, mutexCount, heap, held, strayFree >>

\* IsAllocationTableFragmented between its take and its give
IsAllocationTableFragmented(c) ==
    /\ Running
    /\ pc[c] = "IATF_scan"
    /\ IF ~(loc[c].start < AllocationTableSize)
         THEN /\ AssertFail("assert(start < AllocationTableSize)")
              /\ UNCHANGED << pc, loc >>
         ELSE IF FirstEntry(loc[c].start) + (AllocationTableSize - loc[c].start)
                   > Entries(AllocationTable)
         THEN /\ AssertFail("IsAllocationTableFragmented reads past the end of the table")
              /\ UNCHANGED << pc, loc >>
         ELSE LET r == Fragmented(AllocationTable, AllocationTableSize, loc[c].start,
                                  loc[c].firstEmptyIndex, loc[c].firstValidIndex) IN
              /\ loc' = [loc EXCEPT ![c].fragmented = r.fragmented,
                                    ![c].firstEmptyIndex = r.firstEmptyIndex,
                                    ![c].firstValidIndex = r.firstValidIndex]
              /\ Goto(c, "IATF_give")
              /\ UNCHANGED fatal
    /\ UNCHANGED << shared, mutexHolder, mutexCount, heap, held, strayFree, stack >>

(***************************************************************************)
(* GetAllocationCount, GetTotalSize, PrintStats.                           *)
(***************************************************************************)
\* the calls of the three functions that only read, up to their take
GetAllocationCount(c) ==
    /\ Enter(c, "GAC_read", [NoLocals EXCEPT !.op = "GetAllocationCount"])
    /\ UNCHANGED << held, strayFree >>

\* GetAllocationCount between its take and its give
GetAllocationCount_read(c) ==
    /\ Running
    /\ pc[c] = "GAC_read"
    /\ loc' = [loc EXCEPT ![c].count = AllocationCount]
    /\ Goto(c, "GAC_give")
    /\ UNCHANGED << shared, mutexHolder, mutexCount, heap, held, strayFree, stack, fatal >>

GetTotalSize(c) ==
    /\ Enter(c, "GTS_scan", [NoLocals EXCEPT !.op = "GetTotalSize"])
    /\ UNCHANGED << held, strayFree >>

\* GetTotalSize between its take and its give
GetTotalSize_scan(c) ==
    /\ Running
    /\ pc[c] = "GTS_scan"
    /\ IF Overruns(AllocationTable, AllocationTableSize)
         THEN /\ AssertFail("GetTotalSize reads past the end of the table")
              /\ UNCHANGED << pc, loc >>
         ELSE /\ loc' = [loc EXCEPT ![c].totalSize =
                             TotalSizeOver(AllocationTable, 0, AllocationTableSize)]
              /\ Goto(c, "GTS_give")
              /\ UNCHANGED fatal
    /\ UNCHANGED << shared, mutexHolder, mutexCount, heap, held, strayFree, stack >>

PrintStats(c) ==
    /\ Enter(c, "PS_copy", [NoLocals EXCEPT !.op = "PrintStats"])
    /\ UNCHANGED << held, strayFree >>

\* PrintStats between its take and its give: tableSize in bytes, allocCount, and the memcpy
PrintStats_copy(c) ==
    /\ Running
    /\ pc[c] = "PS_copy"
    /\ LET tableSize == Mul(AllocationTableSize, SizeofDescriptor)
           entries == tableSize \div SizeofDescriptor
       IN  IF entries > Entries(AllocationTable)
             THEN /\ AssertFail("PrintStats copies past the end of the table")
                  /\ UNCHANGED << pc, loc >>
             ELSE /\ loc' = [loc EXCEPT ![c].tableSize = tableSize,
                                        ![c].allocCount = AllocationCount,
                                        ![c].copy = SubSeq(AllocationTable, 1, entries)]
                  /\ Goto(c, "PS_give")
                  /\ UNCHANGED fatal
    /\ UNCHANGED << shared, mutexHolder, mutexCount, heap, held, strayFree, stack >>

\* PrintStats from its give on: xSemaphoreGive, then the loop over index < tableSize (a
\* number of bytes) on the copy and free(allocationTableCopy), which touch nothing but the
\* copy.  The loop reads past the end of the copy when tableSize exceeds the copy's number
\* of entries: the program stops there, or goes on with whatever that memory holds.
PrintStats_print(c) ==
    /\ Running
    /\ pc[c] = "PS_give"
    /\ Release(c)
    /\ \/ /\ loc[c].tableSize > Entries(loc[c].copy)
          /\ AssertFail("PrintStats reads past the end of its copy")
          /\ UNCHANGED << pc, loc >>
       \/ /\ loc' = [loc EXCEPT ![c] = NoLocals]
          /\ Goto(c, "idle")
          /\ UNCHANGED fatal
    /\ UNCHANGED << shared, heap, held, strayFree, stack >>

(***************************************************************************)
(* The program: any context may start any operation and take its steps.    *)
(***************************************************************************)
Next ==
    \E c \in Contexts :
        \/ \E in \in AllocInputs : AllocateInternal(c, in)
        \/ InsertAllocation_lookup(c)
        \/ InsertAllocation_grow(c)
        \/ InsertAllocation_lookup2(c)
        \/ InsertAllocation_store(c)
        \/ AllocateInternal_return(c)
        \/ GetFirstEmptySlot(c)
        \/ \E object \in HeapAddrs \cup { NULL } : Free(c, object)
        \/ RemoveAllocation(c)
        \/ Free_release(c)
        \/ ResizeAllocationTable_assert(c)
        \/ ResizeAllocationTable_body(c)
        \/ ResizeAllocationTable_realloc(c)
        \/ DefragAllocationTable_begin(c)
        \/ DefragAllocationTable_step(c)
        \/ IsAllocationTableFragmented(c)
        \/ GetAllocationCount(c)
        \/ GetAllocationCount_read(c)
        \/ GetTotalSize(c)
        \/ GetTotalSize_scan(c)
        \/ PrintStats(c)
        \/ PrintStats_copy(c)
        \/ PrintStats_print(c)
        \/ xSemaphoreTake(c)
        \/ xSemaphoreTakeTimeout(c)
        \/ xSemaphoreGive(c)

Spec == Init /\ [][Next]_vars


(***************************************************************************)
(* The private functions on their own.  ResizeAllocationTable,             *)
(* DefragAllocationTable and IsAllocationTableFragmented are called, with  *)
(* arguments of the caller's choice, on the table Init leaves: 64 slots of *)
(* uncleared memory, any of the leading PatternSlots slots non-zero.       *)
(***************************************************************************)
PatternTable(S) ==
    [ i \in 1 .. TAGGED_ALLOC_INITIAL_TABLE_SIZE |-> IF i - 1 \in S THEN Poison ELSE Empty ]

PatternTables == { PatternTable(S) : S \in SUBSET (0 .. PatternSlots - 1) }

InitPrivate ==
    /\ AllocationTable \in PatternTables
    /\ AllocationTableSize = TAGGED_ALLOC_INITIAL_TABLE_SIZE
    /\ AllocationCount = 0
    /\ mutexHolder = NoContext
    /\ mutexCount = 0
    /\ heap = {}
    /\ held = {}
    /\ strayFree = FALSE
    /\ pc = [c \in Contexts |-> "idle"]
    /\ stack = [c \in Contexts |-> << >>]
    /\ loc = [c \in Contexts |-> NoLocals]
    /\ fatal = ""

\* the sizes a caller asks for: none, half the minimum, the current size, one step more
\* than the initial size
ResizeInputs ==
    { 0, TAGGED_ALLOC_MIN_TABLE_SIZE \div 2, AllocationTableSize,
      TAGGED_ALLOC_INITIAL_TABLE_SIZE + TAGGED_ALLOC_TABLE_EXPAND_STEP }

CallPrivate(c, op, entry, locals) ==
    /\ Running
    /\ pc[c] = "idle"
    /\ loc' = [loc EXCEPT ![c] = [locals EXCEPT !.op = op]]
    /\ Call(c, entry, "idle")
    /\ UNCHANGED << shared, mutexHolder, mutexCount, heap, held, strayFree, fatal >>

Call_ResizeAllocationTable(c, newEntryCount) ==
    CallPrivate(c, "ResizeAllocationTable", "RAT_assert",
                [NoLocals EXCEPT !.newEntryCount = newEntryCount])

Call_DefragAllocationTable(c) ==
    CallPrivate(c, "DefragAllocationTable", "DAT_take", NoLocals)

Call_IsAllocationTableFragmented(c, start) ==
    CallPrivate(c, "IsAllocationTableFragmented", "IATF_take", [NoLocals EXCEPT !.start = start])

NextPrivate ==
    \E c \in Contexts :
        \/ \E newEntryCount \in ResizeInputs : Call_ResizeAllocationTable(c, newEntryCount)
        \/ Call_DefragAllocationTable(c)
        \/ \E start \in 0 .. PatternSlots : Call_IsAllocationTableFragmented(c, start)
        \/ ResizeAllocationTable_assert(c)
        \/ ResizeAllocationTable_body(c)
        \/ ResizeAllocationTable_realloc(c)
        \/ DefragAllocationTable_begin(c)
        \/ DefragAllocationTable_step(c)
        \/ IsAllocationTableFragmented(c)
        \/ xSemaphoreTake(c)
        \/ xSemaphoreTakeTimeout(c)
        \/ xSemaphoreGive(c)

SpecPrivate == InitPrivate /\ [][NextPrivate]_vars

(***************************************************************************)
(* Vocabulary of the properties.                                           *)
(***************************************************************************)
\* no context is inside an operation
Quiescent == \A c \in Contexts : pc[c] = "idle"

\* the descriptors the table holds in its valid slots
ValidRecords(t) == { Slot(t, n) : n \in ValidIndices(t) }

RECURSIVE SumOfSizes(_)
SumOfSizes(ds) ==
    IF ds = {} THEN 0
    ELSE LET d == CHOOSE x \in ds : TRUE IN d.Size + SumOfSizes(ds \ { d })

\* the positions from which a context reads or writes AllocationTable,
\* AllocationTableSize or AllocationCount
TouchPcs ==
    { "GFES_scan", "RA_scan", "IA_grow", "IA_store", "RAT_body", "RAT_realloc", "DAT_test",
      "IATF_scan", "GAC_read", "GTS_scan", "PS_copy" }

\* the positions outside every lock-protected section
InLock(c) == pc[c] \notin { "idle", "IA_take", "Free_release" }

\* InsertAllocation found no empty slot and calls ResizeAllocationTable
GrowthRequested(c) == loc[c].op = "Allocate" /\ pc[c] = "RAT_assert"

\* the step of ResizeAllocationTable that reallocates to fewer entries, and succeeds
ShrinkStep(c) ==
    /\ pc[c] = "RAT_realloc"
    /\ loc[c].newEntryCount < AllocationTableSize
    /\ pc'[c] = "RAT_give"

\* context c is inside Free(nullptr), a Free of an address that has no record
StrayFreeBy(c) == loc[c].op = "Free" /\ loc[c].objectPointer = NULL

ResizeAssertFailed == fatal = "assert(newEntryCount < TAGGED_ALLOC_MIN_TABLE_SIZE)"
ReallocAssertFailed == fatal = "assert(AllocationTable != nullptr)"

(***************************************************************************)
(* C1.  Between operations, and as long as no Free was given an address    *)
(* without a record, the number of valid slots equals AllocationCount, and *)
(* both equal the number of Allocate calls not yet matched by a Free.      *)
(***************************************************************************)
C1_CountMatchesTable ==
    (Quiescent /\ ~strayFree) =>
        /\ Cardinality(ValidIndices(AllocationTable)) = AllocationCount
        /\ AllocationCount = Cardinality(held)

(***************************************************************************)
(* C2.  A shrink keeps every valid record: the reallocation to fewer       *)
(* entries leaves the set of valid records as it was, all of them below    *)
(* the new number of entries, and leaves AllocationCount as it was.        *)
(***************************************************************************)
C2_ShrinkKeepsRecords ==
    [][ \A c \in Contexts :
          ShrinkStep(c) =>
            /\ ValidRecords(AllocationTable') = ValidRecords(AllocationTable)
            /\ \A n \in ValidIndices(AllocationTable') : n < loc[c].newEntryCount
            /\ AllocationCount' = AllocationCount ]_vars

(***************************************************************************)
(* C3.  An insertion into a full table grows the table by one expansion    *)
(* step and goes on: the growth does not end in a fatal error, and after   *)
(* it the table has the old number of entries plus the step, in entries,   *)
(* and an empty slot.                                                      *)
(***************************************************************************)
C3_GrowthSucceeds ==
    \A c \in Contexts :
        /\ GrowthRequested(c) => ~ResizeAssertFailed
        /\ (loc[c].op = "Allocate" /\ pc[c] = "IA_lookup2" /\ ~loc[c].found) =>
              /\ AllocationTableSize = loc[c].newEntryCount
              /\ Entries(AllocationTable) = loc[c].newEntryCount
              /\ ValidIndices(AllocationTable) # 0 .. Entries(AllocationTable) - 1

(***************************************************************************)
(* C4.  The operations serialize through the mutex: at most one context is *)
(* inside a lock-protected section, every step that reads or writes the    *)
(* table, its size or the count is taken by the context that holds the     *)
(* mutex, and nothing but such a step changes them.                        *)
(***************************************************************************)
MutualExclusion ==
    \A c1, c2 \in Contexts : c1 # c2 => ~(InLock(c1) /\ InLock(c2))

TouchedByHolder ==
    /\ \A c \in Contexts : (pc[c] \in TouchPcs /\ pc'[c] # pc[c]) => mutexHolder = c
    /\ shared' # shared =>
          \E c \in Contexts : /\ mutexHolder = c
                              /\ pc[c] \in TouchPcs
                              /\ (pc'[c] # pc[c] \/ fatal' # fatal)

C4_Serialized == []MutualExclusion /\ [][TouchedByHolder]_vars

\* two Allocate calls at once: one context about to store its descriptor, under the lock,
\* while the other has its object and waits for the mutex
C4_Witness ==
    \E c1, c2 \in Contexts : c1 # c2 /\ pc[c1] = "IA_store" /\ pc[c2] = "IA_take"

(***************************************************************************)
(* C5.  While the program runs, the table has at least                     *)
(* TAGGED_ALLOC_MIN_TABLE_SIZE entries and no more valid slots than        *)
(* entries.                                                                *)
(***************************************************************************)
C5_TableSizeBounds ==
    Running =>
        /\ AllocationTableSize >= TAGGED_ALLOC_MIN_TABLE_SIZE
        /\ Entries(AllocationTable) >= TAGGED_ALLOC_MIN_TABLE_SIZE
        /\ Cardinality(ValidIndices(AllocationTable)) <= AllocationTableSize

(***************************************************************************)
(* C6.  After Init every slot is empty: with no object allocated the table *)
(* has no valid slot, the count is 0 and GetTotalSize returns 0; so the    *)
(* table is not grown before more objects than                             *)
(* TAGGED_ALLOC_INITIAL_TABLE_SIZE are allocated.                          *)
(***************************************************************************)
C6_EmptyAfterInit ==
    /\ (Quiescent /\ heap = {} /\ ~strayFree) =>
          ValidIndices(AllocationTable) = {} /\ AllocationCount = 0
    /\ \A c \in Contexts :
          /\ (pc[c] = "GTS_give" /\ heap = {} /\ ~strayFree) => loc[c].totalSize = 0
          /\ (GrowthRequested(c) /\ ~strayFree) =>
                Cardinality(heap) > TAGGED_ALLOC_INITIAL_TABLE_SIZE

(***************************************************************************)
(* C7.  GetTotalSize returns the sum of the sizes of the allocations made  *)
(* and not yet freed (no other context being inside an operation, and no   *)
(* Free having been given an address without a record).                    *)
(***************************************************************************)
C7_TotalSize ==
    \A c \in Contexts :
        ( /\ pc[c] = "GTS_give"
          /\ ~strayFree
          /\ \A o \in Contexts \ { c } : pc[o] = "idle" )
        => loc[c].totalSize = SumOfSizes(held)

(***************************************************************************)
(* C8.  A Free of an address that has no record, in any state, raises no   *)
(* fatal error, decrements AllocationCount by exactly one and leaves the   *)
(* valid records as they were.                                             *)
(***************************************************************************)
C8_StrayFree ==
    /\ [](\A c \in Contexts : (StrayFreeBy(c) /\ InLock(c)) => ~ReallocAssertFailed)
    /\ [][ \A c \in Contexts :
             (StrayFreeBy(c) /\ InLock(c) /\ pc'[c] # pc[c]) =>
                /\ pc[c] = "RA_scan" => AllocationCount' = Decrement(AllocationCount)
                /\ ValidRecords(AllocationTable') = ValidRecords(AllocationTable) ]_vars

(***************************************************************************)
(* C9.  RemoveAllocation shrinks the table exactly when the count leaves   *)
(* more than TAGGED_ALLOC_TABLE_SHRINK_STEP free slots and the table size  *)
(* less the shrink step is not below TAGGED_ALLOC_MIN_TABLE_SIZE, and a    *)
(* shrink takes exactly one shrink step off the table size.                *)
(***************************************************************************)
ShrinkIsDue(count, size) ==
    /\ size - count > TAGGED_ALLOC_TABLE_SHRINK_STEP
    /\ size - TAGGED_ALLOC_TABLE_SHRINK_STEP >= TAGGED_ALLOC_MIN_TABLE_SIZE

C9_ShrinkRule ==
    [][ \A c \in Contexts :
          /\ (pc[c] = "RA_scan" /\ pc'[c] # pc[c]) =>
                (pc'[c] = "RAT_assert" <=> ShrinkIsDue(AllocationCount', AllocationTableSize))
          /\ ShrinkStep(c) =>
                AllocationTableSize' = AllocationTableSize - TAGGED_ALLOC_TABLE_SHRINK_STEP ]_vars

(***************************************************************************)
(* C10.  ResizeAllocationTable fails its precondition exactly for a        *)
(* requested size below TAGGED_ALLOC_MIN_TABLE_SIZE: the assertion stops   *)
(* no request at or above the minimum and lets none below it through.      *)
(***************************************************************************)
C10_ResizePrecondition ==
    \A c \in Contexts :
        /\ (pc[c] = "RAT_assert" /\ ResizeAssertFailed) =>
              loc[c].newEntryCount < TAGGED_ALLOC_MIN_TABLE_SIZE
        /\ pc[c] \in { "RAT_take", "RAT_body", "RAT_realloc", "RAT_give" } =>
              loc[c].newEntryCount >= TAGGED_ALLOC_MIN_TABLE_SIZE

(***************************************************************************)
(* C11.  Hysteresis: the shrink step exceeds the expansion step; an        *)
(* Allocate into a full table grows the table and goes on, and the Free    *)
(* of a tracked allocation that leaves the table within one expansion      *)
(* step of full does not shrink it, so that Allocate/Free pairs around     *)
(* the boundary resize the table once at most.                             *)
(***************************************************************************)
NearFull(count, size) == count + TAGGED_ALLOC_TABLE_EXPAND_STEP >= size

C11_NoThrash ==
    /\ TAGGED_ALLOC_TABLE_SHRINK_STEP > TAGGED_ALLOC_TABLE_EXPAND_STEP
    /\ [][ \A c \in Contexts :
             /\ (GrowthRequested(c) /\ pc'[c] # pc[c]) => pc'[c] = "RAT_take"
             /\ (GrowthRequested(c) /\ Running) => ~ResizeAssertFailed'
             /\ ( /\ loc[c].op = "Free" /\ ~StrayFreeBy(c)
                  /\ pc[c] = "RA_scan" /\ pc'[c] # pc[c]
                  /\ NearFull(AllocationCount', AllocationTableSize) )
                => pc'[c] # "RAT_assert" ]_vars

(***************************************************************************)
(* C12.  Record lifecycle: an address that Allocate has returned and that  *)
(* has not been passed to Free is held by exactly one valid slot; when     *)
(* RemoveAllocation has returned to Free(p), no slot holds p; and every    *)
(* valid slot holds an address that an Allocate call obtained.             *)
(***************************************************************************)
SlotsHolding(object) ==
    { n \in ValidIndices(AllocationTable) : Slot(AllocationTable, n).Object = object }

C12_RecordLifecycle ==
    Running =>
        /\ \A d \in held : Cardinality(SlotsHolding(d.Object)) = 1
        /\ \A c \in Contexts :
              (pc[c] = "Free_release" /\ ~StrayFreeBy(c)) =>
                  SlotsHolding(loc[c].objectPointer) = {}
        /\ \A n \in ValidIndices(AllocationTable) : Slot(AllocationTable, n).Object \in heap

(***************************************************************************)
(* C13.  ResizeAllocationTable(AllocationTableSize) is a no-op: it passes  *)
(* its precondition and returns without defragmenting or reallocating,     *)
(* and the table, its size and the count stay as they are.                 *)
(***************************************************************************)
SameSizeResize(c) ==
    /\ loc[c].op = "ResizeAllocationTable"
    /\ pc[c] \in { "RAT_assert", "RAT_take", "RAT_body", "RAT_give" }
    /\ loc[c].newEntryCount = AllocationTableSize

C13_ResizeNoOp ==
    [][ \A c \in Contexts :
          /\ ( /\ SameSizeResize(c) /\ pc[c] = "RAT_assert" /\ Running
               /\ \A o \in Contexts \ { c } : pc[o] # "RAT_assert" )
             => ~ResizeAssertFailed'
          /\ (SameSizeResize(c) /\ pc'[c] # pc[c]) =>
                /\ pc'[c] \notin { "DAT_take", "RAT_realloc" }
                /\ mutexHolder = c => shared' = shared ]_vars

(***************************************************************************)
(* C14.  PrintStats copies the table while it holds the lock, and the scan *)
(* it makes after the give stays inside the copy: its bound is the number  *)
(* of entries of the copy.                                                 *)
(***************************************************************************)
C14_PrintStatsSnapshot ==
    /\ \A c \in Contexts :
          pc[c] = "PS_give" =>
              /\ mutexHolder = c => loc[c].copy = AllocationTable
              /\ loc[c].tableSize = Entries(loc[c].copy)
    /\ fatal # "PrintStats reads past the end of its copy"

(***************************************************************************)
(* C15.  DefragAllocationTable loses, duplicates and overwrites no record  *)
(* (no move changes the number of valid slots), and when its loop is over  *)
(* the valid slots are exactly the indices below their number.             *)
(***************************************************************************)
DefragMove(c) ==
    /\ pc[c] = "DAT_test"
    /\ loc[c].fragmented
    /\ pc'[c] = "IATF_take"

Compact(t, size) ==
    { n \in 0 .. size - 1 : TAGGED_ALLOC_IS_VALID(Slot(t, n)) }
        = 0 .. Cardinality(ValidIndices(t)) - 1

C15_DefragPostcondition ==
    /\ [][ \A c \in Contexts :
             DefragMove(c) =>
                Cardinality(ValidIndices(AllocationTable'))
                    = Cardinality(ValidIndices(AllocationTable)) ]_vars
    /\ [](\A c \in Contexts :
             (pc[c] = "DAT_give" /\ ~Overruns(AllocationTable, AllocationTableSize)) =>
                 Compact(AllocationTable, AllocationTableSize))

(***************************************************************************)
(* C16.  IsAllocationTableFragmented(start, &e, &v) returns true exactly   *)
(* when some slot at an index >= start is empty and a slot at a higher     *)
(* index is valid; then e is the lowest index >= start of an empty slot    *)
(* and v the lowest index > e of a valid slot.                             *)
(***************************************************************************)
EmptyFrom(t, size, start) ==
    { e \in start .. size - 1 : ~TAGGED_ALLOC_IS_VALID(Slot(t, e)) }

ValidAfter(t, size, e) ==
    { v \in e + 1 .. size - 1 : TAGGED_ALLOC_IS_VALID(Slot(t, v)) }

EmptyBeforeValid(t, size, start) ==
    \E e \in EmptyFrom(t, size, start) : ValidAfter(t, size, e) # {}

C16_FragmentedResult ==
    \A c \in Contexts :
        (pc[c] = "IATF_give" /\ ~Overruns(AllocationTable, AllocationTableSize)) =>
            /\ loc[c].fragmented
                  <=> EmptyBeforeValid(AllocationTable, AllocationTableSize, loc[c].start)
            /\ loc[c].fragmented =>
                  /\ loc[c].firstEmptyIndex
                        = Lowest(EmptyFrom(AllocationTable, AllocationTableSize, loc[c].start))
                  /\ loc[c].firstValidIndex
                        = Lowest(ValidAfter(AllocationTable, AllocationTableSize,
                                            loc[c].firstEmptyIndex))

(***************************************************************************)
(* C17.  A ResizeAllocationTable(n) that changes the size leaves           *)
(* AllocationTableSize equal to n and a buffer of exactly that many        *)
(* entries, so that no scan bounded by AllocationTableSize leaves the      *)
(* buffer.                                                                 *)
(***************************************************************************)
C17_SizeInEntries ==
    /\ [][ \A c \in Contexts :
             (pc[c] = "RAT_realloc" /\ pc'[c] = "RAT_give") =>
                /\ AllocationTableSize' = loc[c].newEntryCount
                /\ Entries(AllocationTable') = AllocationTableSize' ]_vars
    /\ [](Running => ~Overruns(AllocationTable, AllocationTableSize))

(***************************************************************************)
(* C18.  DefragAllocationTable's loop makes progress and stops where it    *)
(* should: every move takes a valid record from a higher index into an     *)
(* empty slot of a lower one, the loop goes on only while an empty slot    *)
(* precedes a valid one, and it is over only when none does.               *)
(***************************************************************************)
C18_DefragStops ==
    /\ [][ \A c \in Contexts :
             DefragMove(c) =>
                /\ EmptyBeforeValid(AllocationTable, AllocationTableSize, 0)
                /\ loc[c].firstEmptyIndex < loc[c].firstValidIndex
                /\ ~TAGGED_ALLOC_IS_VALID(Slot(AllocationTable, loc[c].firstEmptyIndex))
                /\ TAGGED_ALLOC_IS_VALID(Slot(AllocationTable, loc[c].firstValidIndex)) ]_vars
    /\ [](\A c \in Contexts :
             (pc[c] = "DAT_give" /\ ~Overruns(AllocationTable, AllocationTableSize)) =>
                 ~EmptyBeforeValid(AllocationTable, AllocationTableSize, 0))

(***************************************************************************)
(* C19.  As long as every Free was given an address Allocate returned, no  *)
(* two valid slots hold the same address.                                  *)
(***************************************************************************)
C19_NoDuplicateAddress ==
    ~strayFree =>
        \A i, j \in ValidIndices(AllocationTable) :
            i # j => Slot(AllocationTable, i).Object # Slot(AllocationTable, j).Object

(***************************************************************************)
(* C20.  Lock balance: a context that is not inside an operation holds     *)
(* the mutex no times, the mutex is free when no context is inside an      *)
(* operation, and a take by the context that holds the mutex already       *)
(* never times out.                                                        *)
(***************************************************************************)
LockBalanced ==
    /\ \A c \in Contexts : pc[c] = "idle" => mutexHolder # c
    /\ Quiescent => (mutexHolder = NoContext /\ mutexCount = 0)
    /\ mutexHolder = NoContext <=> mutexCount = 0

C20_LockBalance == LockBalanced /\ fatal # "nested xSemaphoreTake timed out"

====
